---------------------------- MODULE Spec2Model ----------------------------
(***************************************************************************)
(* Model of streamlit_app.py: the annuity projection script.              *)
(*                                                                         *)
(* The script reads six widget values, runs num_simulations runs of a     *)
(* month loop under the selected algorithm, collects the runs in          *)
(* simulation_results and summarises the transposed table with            *)
(* df.describe().                                                          *)
(*                                                                         *)
(* Arithmetic.  The script computes in Python floats.  The model computes *)
(* the same expressions, in the same order, over exact rationals, so that *)
(* equalities between results are decided exactly and never by rounding.  *)
(* A rational is [neg, num, den]: a sign, a natural numerator and a       *)
(* denominator kept as a bag of natural factors.  Naturals are sequences  *)
(* of base-BASE limbs, least significant first, because the level-payment *)
(* formula (1 + r) ** -T needs far more than 32 bits.                     *)
(***************************************************************************)
EXTENDS Integers, Sequences, FiniteSets, Bags, TLC

----------------------------------------------------------------------------
(* Natural numbers of any size: sequences of limbs, no leading zero limb. *)

BASE == 10000

Limb(a, i) == IF 1 <= i /\ i <= Len(a) THEN a[i] ELSE 0

\* The highest index in lo..hi whose limb is not v, or 0.
RECURSIVE TopOther(_, _, _, _)
TopOther(s, v, lo, hi) ==
    IF lo > hi THEN 0
    ELSE IF lo = hi THEN (IF s[lo] # v THEN lo ELSE 0)
    ELSE IF TopOther(s, v, (lo + hi) \div 2 + 1, hi) # 0
         THEN TopOther(s, v, (lo + hi) \div 2 + 1, hi)
         ELSE TopOther(s, v, lo, (lo + hi) \div 2)

Strip(s) ==
    IF s = <<>> \/ s[Len(s)] # 0 THEN s ELSE SubSeq(s, 1, TopOther(s, 0, 1, Len(s)))

RECURSIVE BFromInt(_)
BFromInt(n) == IF n = 0 THEN <<>> ELSE <<n % BASE>> \o BFromInt(n \div BASE)

\* Each limb's low part plus the high part of the limb below it.
Split(v) ==
    [i \in 1 .. Len(v) + 1 |-> (Limb(v, i) % BASE) + (Limb(v, i - 1) \div BASE)] \o <<>>

\* The limb at index t of s, 0 standing for no limb, is at least v.
Reaches(s, t, v) == IF t # 0 /\ s[t] >= v THEN 1 ELSE 0

\* The carry out of limb i of s, whose limbs are below 2 * BASE - 1.
Carry(s, i) ==
    IF i = 0 THEN 0
    ELSE IF s[i] >= BASE THEN 1
    ELSE IF s[i] = BASE - 1 THEN Reaches(s, TopOther(s, BASE - 1, 1, i - 1), BASE)
    ELSE 0

Ripple(s) == Strip([i \in 1 .. Len(s) + 1 |-> (Limb(s, i) + Carry(s, i - 1)) % BASE] \o <<>>)

\* The natural whose limbs, not yet reduced below BASE, are v.
Normal(v) == Ripple(Split(Split(v)))

Longer(a, b) == IF Len(a) >= Len(b) THEN Len(a) ELSE Len(b)

Sum(a, b) == [i \in 1 .. Longer(a, b) |-> Limb(a, i) + Limb(b, i)] \o <<>>

BAdd(a, b) ==
    IF a = <<>> THEN b ELSE IF b = <<>> THEN a ELSE Ripple(Sum(a, b))

\* The limb at index t of d, 0 standing for no limb, is negative.
Owes(d, t) == IF t # 0 /\ d[t] < 0 THEN 1 ELSE 0

\* The borrow out of limb i of the limb-wise difference d.
Borrow(d, i) ==
    IF i = 0 THEN 0
    ELSE IF d[i] < 0 THEN 1
    ELSE IF d[i] = 0 THEN Owes(d, TopOther(d, 0, 1, i - 1))
    ELSE 0

Settle(d) == Strip([i \in 1 .. Len(d) |-> (d[i] - Borrow(d, i - 1)) % BASE] \o <<>>)

\* a - b, for a >= b.
BSub(a, b) == Settle([i \in 1 .. Len(a) |-> a[i] - Limb(b, i)] \o <<>>)

RECURSIVE BCmpRange(_, _, _, _)
BCmpRange(a, b, lo, hi) ==
    IF lo = hi
    THEN (IF a[lo] < b[lo] THEN -1 ELSE IF a[lo] > b[lo] THEN 1 ELSE 0)
    ELSE IF BCmpRange(a, b, (lo + hi) \div 2 + 1, hi) # 0
         THEN BCmpRange(a, b, (lo + hi) \div 2 + 1, hi)
         ELSE BCmpRange(a, b, lo, (lo + hi) \div 2)

\* -1, 0 or 1 as a < b, a = b or a > b.
BCmp(a, b) ==
    IF Len(a) < Len(b) THEN -1
    ELSE IF Len(a) > Len(b) THEN 1
    ELSE IF a = b THEN 0
    ELSE BCmpRange(a, b, 1, Len(a))

\* a times the limb k, shifted up j - 1 limbs; limbs below 2 * BASE.
Row(a, k, j) ==
    [i \in 1 .. Len(a) + j |->
        IF i < j THEN 0
        ELSE ((Limb(a, i - j + 1) * k) % BASE) + ((Limb(a, i - j) * k) \div BASE)] \o <<>>

\* The sum of the rows of a for the limbs lo..hi of b, limbs not reduced.
RECURSIVE Rows(_, _, _, _)
Rows(a, b, lo, hi) ==
    IF lo = hi THEN Row(a, b[lo], lo)
    ELSE Sum(Rows(a, b, lo, (lo + hi) \div 2), Rows(a, b, (lo + hi) \div 2 + 1, hi))

BMul(a, b) ==
    IF a = <<>> \/ b = <<>> THEN <<>>
    ELSE IF a = <<1>> THEN b
    ELSE IF b = <<1>> THEN a
    ELSE Normal(Rows(IF Len(a) >= Len(b) THEN a ELSE b,
                     IF Len(a) >= Len(b) THEN b ELSE a,
                     1, IF Len(a) >= Len(b) THEN Len(b) ELSE Len(a)))

BSquare(a) == BMul(a, a)

\* a ** n, by squaring.
RECURSIVE BPow(_, _)
BPow(a, n) ==
    IF n = 0 THEN <<1>>
    ELSE IF n % 2 = 0 THEN BSquare(BPow(a, n \div 2))
    ELSE BMul(BSquare(BPow(a, n \div 2)), a)

----------------------------------------------------------------------------
(* Rationals: (-1)^neg * num / (product of the bag den).                  *)

BagMax(A, B) ==
    [e \in DOMAIN A \cup DOMAIN B |->
        IF CopiesIn(e, A) >= CopiesIn(e, B) THEN CopiesIn(e, A) ELSE CopiesIn(e, B)]

\* The product of a bag of naturals.
RECURSIVE BagProd(_)
BagProd(B) ==
    IF DOMAIN B = {} THEN <<1>>
    ELSE LET e == CHOOSE x \in DOMAIN B : TRUE
         IN  BMul(BPow(e, B[e]), BagProd([x \in DOMAIN B \ {e} |-> B[x]]))

Zero == [neg |-> FALSE, num |-> <<>>, den |-> EmptyBag]

RNorm(x) == IF x.num = <<>> THEN Zero ELSE x

RInt(n) ==
    IF n = 0 THEN Zero
    ELSE [neg |-> n < 0, num |-> BFromInt(IF n < 0 THEN -n ELSE n), den |-> EmptyBag]

RIsZero(x) == x.num = <<>>

RNeg(x) == IF RIsZero(x) THEN Zero ELSE [x EXCEPT !.neg = ~x.neg]

RMul(x, y) ==
    IF RIsZero(x) \/ RIsZero(y) THEN Zero
    ELSE [neg |-> x.neg # y.neg, num |-> BMul(x.num, y.num), den |-> x.den (+) y.den]

\* 1 / y, for y # 0.
RRecip(y) ==
    [neg |-> y.neg,
     num |-> BagProd(y.den),
     den |-> IF y.num = <<1>> THEN EmptyBag ELSE SetToBag({y.num})]

RECURSIVE Gcd(_, _)
Gcd(a, b) == IF b = 0 THEN a ELSE Gcd(b, a % b)

\* x / y, for y # 0: Python's true division of floats.  A common factor of
\* a one-limb numerator and a one-limb whole divisor is cancelled.
RDiv(x, y) ==
    IF Len(x.num) = 1 /\ Len(y.num) = 1 /\ y.den = EmptyBag
    THEN LET g == Gcd(x.num[1], y.num[1])
         IN  [neg |-> x.neg # y.neg,
              num |-> <<x.num[1] \div g>>,
              den |-> IF y.num[1] = g THEN x.den
                      ELSE x.den (+) SetToBag({<<y.num[1] \div g>>})]
    ELSE RMul(x, RRecip(y))

\* The numerator of x over the denominator L, a multiple of x.den.
Over(x, L) == BMul(x.num, BagProd(L (-) x.den))

\* The larger less the smaller of nx and ny, c being BCmp(nx, ny).
BDiff(nx, ny, c) == IF c = 1 THEN BSub(nx, ny) ELSE BSub(ny, nx)

\* (-1)^xneg * nx / L + (-1)^yneg * ny / L.
RAddOver(xneg, nx, yneg, ny, c, L) ==
    IF xneg = yneg THEN RNorm([neg |-> xneg, num |-> BAdd(nx, ny), den |-> L])
    ELSE IF c = 0 THEN Zero
    ELSE [neg |-> IF c = 1 THEN xneg ELSE yneg, num |-> BDiff(nx, ny, c), den |-> L]

RAddNums(xneg, nx, yneg, ny, L) == RAddOver(xneg, nx, yneg, ny, BCmp(nx, ny), L)

RAddDen(x, y, L) == RAddNums(x.neg, Over(x, L), y.neg, Over(y, L), L)

\* x + y over the common denominator BagMax(x.den, y.den).
RAdd(x, y) == RAddDen(x, y, BagMax(x.den, y.den))

RSub(x, y) == RAdd(x, RNeg(y))

\* -1, 0 or 1: the sign of x.
RSign(x) == IF RIsZero(x) THEN 0 ELSE IF x.neg THEN -1 ELSE 1

\* -1, 0 or 1 as x < y, x = y or x > y in value.
RCmpDen(x, y, L) == IF x.neg THEN -BCmp(Over(x, L), Over(y, L)) ELSE BCmp(Over(x, L), Over(y, L))

RCmp(x, y) ==
    IF x = y THEN 0
    ELSE IF RSign(x) # RSign(y) THEN (IF RSign(x) < RSign(y) THEN -1 ELSE 1)
    ELSE RCmpDen(x, y, BagMax(x.den, y.den))

\* Equality of values (two representations of one number are equal).
REq(x, y) == RCmp(x, y) = 0

RLt(x, y) == RCmp(x, y) = -1

RLe(x, y) == RCmp(x, y) <= 0

\* x ** e for an integer e, x # 0: Python's float power.
RSquare(x) == RMul(x, x)

RECURSIVE RPow(_, _)
RPow(x, e) ==
    IF e < 0 THEN RRecip(RPow(x, -e))
    ELSE IF e = 0 THEN RInt(1)
    ELSE IF e % 2 = 0 THEN RSquare(RPow(x, e \div 2))
    ELSE RMul(RSquare(RPow(x, e \div 2)), x)

\* The float literal n / d (0.5 is RFrac(1, 2), 1.2 is RFrac(12, 10)).
RFrac(n, d) == RDiv(RInt(n), RInt(d))

----------------------------------------------------------------------------
(* The widgets' values (lines 37-52) and the bounds of the model.          *)

\* `annuity_duration * 12`
MonthsPerYear == 12

\* min_value=1 of the three number_input widgets.
MinValue == 1

\* The duration widget delivers MinValue..MaxYears here.
MaxYears == 1

\* The simulations widget delivers MinValue..MaxSimulations here.
MaxSimulations == 2

Principals == {1, 1000}

\* slider(0.1, 20.0, 5.0): the maximum, in percent.
Rates == {RInt(20)}

\* slider(0.1, 2.0, 1.0): 0.5, the default 1.0 and the maximum 2.0.
Factors == {RFrac(1, 2), RInt(1), RInt(2)}

Durations == MinValue .. MaxYears

Simulations == MinValue .. MaxSimulations

Algorithms ==
    {"Monte Carlo", "Constant Payment", "Fixed Interest Rate",
     "Decreasing Payment", "Increasing Payment", "Graduated Payment"}

\* A name no assignment has bound yet.
Unset == [unset |-> TRUE]

\* No earlier execution of the script.
NoPrevious == [executed |-> FALSE]

VARIABLES
    principal,                    \* line 37
    annual_interest_rate,         \* line 40
    annuity_duration,             \* line 43
    num_simulations,              \* line 46
    mortality_adjustment_factor,  \* line 49
    selected_algorithm,           \* line 52
    monthly_interest_rate,        \* line 55
    simulation_results,           \* line 58
    run,                          \* the runs the outer for loop has started
    remaining_principal,          \* lines 63, 77
    annuity_payments,             \* lines 64, 76
    month,                        \* the index the inner for loop hands out next
    df,                           \* line 105
    df_describe,                  \* line 115
    pc,                           \* the statement the script is at
    trace,                        \* history: the months of the current run
    traces,                       \* history: the months of the finished runs
    previous                      \* history: the script's previous execution

inputs ==
    <<principal, annual_interest_rate, annuity_duration, num_simulations,
      mortality_adjustment_factor, selected_algorithm>>

vars ==
    <<principal, annual_interest_rate, annuity_duration, num_simulations,
      mortality_adjustment_factor, selected_algorithm, monthly_interest_rate,
      simulation_results, run, remaining_principal, annuity_payments, month,
      df, df_describe, pc, trace, traces, previous>>

\* annuity_duration * 12
TotalMonths(duration) == duration * MonthsPerYear

\* A month loop that runs one index too far.
MonthRangeInclusive(total) == 0 .. total

\* range(annuity_duration * 12)
MonthRange(total) == 0 .. (total - 1)

\* A run loop that runs once too often.
RunRangeInclusive(n) == 0 .. n

\* range(num_simulations)
RunRange(n) == 0 .. (n - 1)

\* monthly_interest_rate = annual_interest_rate / 12 / 100
MonthlyRate(annual) == RDiv(RDiv(annual, RInt(MonthsPerYear)), RInt(100))

----------------------------------------------------------------------------
(* The month body of the two loops (lines 66-72 and 79-92).                *)

\* 1 - (1 + monthly_interest_rate) ** -(annuity_duration * 12)
LevelDivisor(r, total) == RSub(RInt(1), RPow(RAdd(RInt(1), r), -total))

RemainingBalancePolicies ==
    {"Decreasing Payment", "Increasing Payment", "Graduated Payment"}

\* The divisor of the month's principal_payment expression.
Divisor(algorithm, r, total, m) ==
    IF algorithm \in {"Monte Carlo", "Fixed Interest Rate"} THEN LevelDivisor(r, total)
    ELSE IF algorithm = "Constant Payment" THEN RInt(total)
    ELSE RInt(total - m)

\* The base of the power (1 + monthly_interest_rate) ** -(...): a zero base
\* raises ZeroDivisionError as a zero divisor does.
RaisesZeroDivision(algorithm, r) ==
    /\ algorithm \in {"Monte Carlo", "Fixed Interest Rate"}
    /\ RIsZero(RAdd(RInt(1), r))

\* A Monte Carlo month that takes the level payment of the balance, as the
\* Fixed Interest Rate month does.
PrincipalPaymentOnBalance(algorithm, p, remaining, r, total, m) ==
    CASE algorithm \in {"Monte Carlo", "Fixed Interest Rate"} ->
            RDiv(RMul(remaining, r), LevelDivisor(r, total))
      [] algorithm = "Constant Payment" ->
            RDiv(RInt(p), RInt(total))
      [] algorithm = "Decreasing Payment" ->
            RDiv(remaining, RInt(total - m))
      [] algorithm = "Increasing Payment" ->
            RMul(RDiv(remaining, RInt(total - m)), RFrac(12, 10))
      [] algorithm = "Graduated Payment" ->
            RMul(RDiv(remaining, RInt(total - m)),
                 RAdd(RInt(1), RDiv(RInt(m), RInt(12))))

\* principal_payment as lines 67 and 80-88 compute it.
PrincipalPayment(algorithm, p, remaining, r, total, m) ==
    CASE algorithm = "Monte Carlo" ->
            RDiv(RMul(RInt(p), r), LevelDivisor(r, total))
      [] algorithm = "Constant Payment" ->
            RDiv(RInt(p), RInt(total))
      [] algorithm = "Fixed Interest Rate" ->
            RDiv(RMul(remaining, r), LevelDivisor(r, total))
      [] algorithm = "Decreasing Payment" ->
            RDiv(remaining, RInt(total - m))
      [] algorithm = "Increasing Payment" ->
            RMul(RDiv(remaining, RInt(total - m)), RFrac(12, 10))
      [] algorithm = "Graduated Payment" ->
            RMul(RDiv(remaining, RInt(total - m)),
                 RAdd(RInt(1), RDiv(RInt(m), RInt(12))))

\* Lines 66-72: the payment appended and the amount taken off remaining_principal.
\* A Monte Carlo month that subtracts the adjusted principal_payment.
MonteCarloAmountsSubtractingAdjusted(interest_payment, principal_payment, factor) ==
    [portion    |-> principal_payment,
     payment    |-> RMul(RAdd(interest_payment, principal_payment), factor),
     subtracted |-> RMul(principal_payment, factor)]

MonteCarloAmounts(interest_payment, principal_payment, factor) ==
    [portion    |-> principal_payment,
     payment    |-> RMul(RAdd(interest_payment, principal_payment), factor),
     subtracted |-> principal_payment]

MonteCarloBody(p, remaining, r, total, factor, m) ==
    MonteCarloAmounts(RMul(remaining, r),
                      PrincipalPayment("Monte Carlo", p, remaining, r, total, m),
                      factor)

\* Lines 79-92: principal_payment is scaled in place (line 90), appended and
\* then subtracted.
\* A month that subtracts principal_payment as it was before line 90.
PolicyAmountsSubtractingPortion(principal_payment, adjusted) ==
    [portion    |-> principal_payment,
     payment    |-> adjusted,
     subtracted |-> principal_payment]

PolicyAmounts(principal_payment, adjusted) ==
    [portion    |-> principal_payment,
     payment    |-> adjusted,
     subtracted |-> adjusted]

PolicyAdjusted(principal_payment, factor) ==
    PolicyAmounts(principal_payment, RMul(principal_payment, factor))

PolicyBody(algorithm, p, remaining, r, total, factor, m) ==
    PolicyAdjusted(PrincipalPayment(algorithm, p, remaining, r, total, m), factor)

MonthBody(algorithm, p, remaining, r, total, factor, m) ==
    IF algorithm = "Monte Carlo"
    THEN MonteCarloBody(p, remaining, r, total, factor, m)
    ELSE PolicyBody(algorithm, p, remaining, r, total, factor, m)

\* A run that goes on with the balance the run before it left.
RunStartKeepingBalance(p, old_remaining, old_payments) ==
    [remaining_principal |-> IF run = 0 THEN RInt(p) ELSE old_remaining,
     annuity_payments    |-> <<>>]

\* A run that goes on appending to the schedule of the run before it.
RunStartKeepingSchedule(p, old_remaining, old_payments) ==
    [remaining_principal |-> RInt(p),
     annuity_payments    |-> IF run = 0 THEN <<>> ELSE old_payments]

\* Lines 63-64 and 76-77: what a run starts from.
RunStart(p, old_remaining, old_payments) ==
    [remaining_principal |-> RInt(p), annuity_payments |-> <<>>]

----------------------------------------------------------------------------
(* The table and its summary (lines 105-115).                              *)

\* pd.DataFrame(simulation_results): one row per run, one column per month.
DataFrame(rows) == rows

\* .transpose(): one row per month, one column per run.
Transpose(m) ==
    IF m = <<>> THEN <<>>
    ELSE [j \in 1 .. Len(m[1]) |-> [i \in 1 .. Len(m) |-> m[i][j]]]

NumColumns(m) == IF m = <<>> THEN 0 ELSE Len(m[1])

\* A summary taken along the rows of the table.
RowOf(m, c) == m[c]

Column(m, c) == [i \in 1 .. Len(m) |-> m[i][c]] \o <<>>

\* df.columns = [f"Simulation {i+1}" for i in range(num_simulations)]
ColumnNames(n) == [i \in 1 .. n |-> <<"Simulation", i>>]

\* The sum of the values lo..hi of a column.
RECURSIVE SumRange(_, _, _)
SumRange(col, lo, hi) ==
    IF lo > hi THEN Zero
    ELSE IF lo = hi THEN col[lo]
    ELSE RAdd(SumRange(col, lo, (lo + hi) \div 2),
              SumRange(col, (lo + hi) \div 2 + 1, hi))

Mean(col) == RDiv(SumRange(col, 1, Len(col)), RInt(Len(col)))

\* std: the root of the sample variance, whose divisor is n - 1.  The model
\* keeps whether it is NaN (the divisor is 0), not its irrational value.
Std(col) == [nan |-> Len(col) - 1 <= 0]

\* The value at j is sorted before the value at i, c being their comparison.
Before(c, j, i) == c = -1 \/ (c = 0 /\ j < i)

\* The number of values of the column sorted before the value at i.
Rank(col, i) ==
    Cardinality({j \in 1 .. Len(col) : Before(RCmp(col[j], col[i]), j, i)})

Ranks(col) == [i \in 1 .. Len(col) |-> Rank(col, i)] \o <<>>

Arrange(col, ranks) ==
    [k \in 1 .. Len(col) |-> col[CHOOSE i \in 1 .. Len(col) : ranks[i] = k - 1]] \o <<>>

\* The values of the column in ascending order.
SortValues(col) == Arrange(col, Ranks(col))

\* The qn/qd quantile of a sorted column, by linear interpolation.
Interpolate(x, y, frac, qd) == RAdd(x, RMul(RFrac(frac, qd), RSub(y, x)))

QuantileAt(sorted, pos, qd) ==
    IF pos % qd = 0 THEN sorted[pos \div qd + 1]
    ELSE Interpolate(sorted[pos \div qd + 1], sorted[pos \div qd + 2], pos % qd, qd)

Quantile(sorted, qn, qd) == QuantileAt(sorted, (Len(sorted) - 1) * qn, qd)

\* A common denominator of the values lo..hi of a column.
RECURSIVE CommonDenominator(_, _, _)
CommonDenominator(col, lo, hi) ==
    IF lo > hi THEN EmptyBag
    ELSE IF lo = hi THEN col[lo].den
    ELSE BagMax(CommonDenominator(col, lo, (lo + hi) \div 2),
                CommonDenominator(col, (lo + hi) \div 2 + 1, hi))

\* What the numerator of the i-th value is multiplied by to write it over
\* L: the product of L less its denominator.  A denominator contained in
\* the next value's takes that value's product, above, further.
ScaleOne(col, L, i, above) ==
    IF i < Len(col) /\ col[i].den \sqsubseteq col[i + 1].den
    THEN BMul(above, BagProd(col[i + 1].den (-) col[i].den))
    ELSE BagProd(L (-) col[i].den)

\* ScaleOne of the values lo..hi, above being that of the value hi + 1.
RECURSIVE ScaleRange(_, _, _, _, _)
ScaleBelow(col, L, lo, mid, upper) == ScaleRange(col, L, lo, mid, upper[1]) \o upper

ScaleRange(col, L, lo, hi, above) ==
    IF lo = hi THEN <<ScaleOne(col, L, lo, above)>>
    ELSE ScaleBelow(col, L, lo, (lo + hi) \div 2,
                    ScaleRange(col, L, (lo + hi) \div 2 + 1, hi, above))

Rescale(col, L, scale) ==
    [i \in 1 .. Len(col) |->
        IF RIsZero(col[i]) THEN Zero
        ELSE [neg |-> col[i].neg, num |-> BMul(col[i].num, scale[i]), den |-> L]] \o <<>>

\* The same values, each written over the denominator L.
OverDenominator(col, L) ==
    IF col = <<>> THEN <<>> ELSE Rescale(col, L, ScaleRange(col, L, 1, Len(col), <<>>))

Summary(col, sorted) ==
    [count |-> Len(col),
     mean  |-> Mean(col),
     std   |-> Std(col),
     min   |-> sorted[1],
     q25   |-> Quantile(sorted, 1, 4),
     q50   |-> Quantile(sorted, 2, 4),
     q75   |-> Quantile(sorted, 3, 4),
     max   |-> sorted[Len(sorted)]]

Sorted(col) == Summary(col, SortValues(col))

\* One column of df.describe().  The statistics are computed on the
\* column's values written over one denominator.
ColumnStats(column) ==
    Sorted(OverDenominator(column, CommonDenominator(column, 1, Len(column))))

\* The distinct columns of the table.
Columns(m) == {Column(m, c) : c \in 1 .. NumColumns(m)}

StatsOf(columns) == [col \in columns |-> ColumnStats(col)] @@ <<>>

Lookup(m, stats) == [c \in 1 .. NumColumns(m) |-> stats[Column(m, c)]] \o <<>>

\* df.describe(): the statistics of each column of the table.  Equal
\* columns are summarised once.
Describe(m) == Lookup(m, StatsOf(Columns(m)))

----------------------------------------------------------------------------
(* The script as a state machine.                                          *)

\* Lines 37-58, with the state the script starts from.
Start(p, rate, duration, n, factor, algorithm) ==
    /\ principal = p
    /\ annual_interest_rate = rate
    /\ annuity_duration = duration
    /\ num_simulations = n
    /\ mortality_adjustment_factor = factor
    /\ selected_algorithm = algorithm
    /\ monthly_interest_rate = MonthlyRate(rate)
    /\ simulation_results = <<>>
    /\ run = 0
    /\ remaining_principal = Unset
    /\ annuity_payments = Unset
    /\ month = Unset
    /\ df = Unset
    /\ df_describe = Unset
    /\ pc = "for_run"
    /\ trace = <<>>
    /\ traces = <<>>

Init ==
    /\ \E p \in Principals, rate \in Rates, duration \in Durations,
          n \in Simulations, factor \in Factors, algorithm \in Algorithms :
            Start(p, rate, duration, n, factor, algorithm)
    /\ previous = NoPrevious

\* Lines 62-64 and 75-77: the outer loop hands out the next run.
StartRun ==
    /\ pc = "for_run"
    /\ run \in RunRange(num_simulations)
    /\ LET s == RunStart(principal, remaining_principal, annuity_payments)
       IN  /\ remaining_principal' = s.remaining_principal
           /\ annuity_payments' = s.annuity_payments
    /\ month' = 0
    /\ trace' = <<>>
    /\ pc' = "for_month"
    /\ UNCHANGED <<inputs, monthly_interest_rate, simulation_results, run, df,
                   df_describe, traces, previous>>

\* One pass of the month body, or the ZeroDivisionError that ends the script.
\* The month body has computed b over the divisor d.
MonthDone(b, d) ==
    /\ annuity_payments' = Append(annuity_payments, b.payment)
    /\ remaining_principal' = RSub(remaining_principal, b.subtracted)
    /\ month' = month + 1
    /\ trace' = Append(trace, [balance    |-> remaining_principal,
                               divisor    |-> d,
                               portion    |-> b.portion,
                               subtracted |-> b.subtracted])
    /\ pc' = "for_month"

MonthOver(total, d) ==
    IF RIsZero(d) \/ RaisesZeroDivision(selected_algorithm, monthly_interest_rate)
    THEN /\ pc' = "ZeroDivisionError"
         /\ UNCHANGED <<remaining_principal, annuity_payments, month, trace>>
    ELSE MonthDone(MonthBody(selected_algorithm, principal, remaining_principal,
                             monthly_interest_rate, total,
                             mortality_adjustment_factor, month), d)

\* One pass of the month body, or the ZeroDivisionError that ends the script.
MonthStep ==
    MonthOver(TotalMonths(annuity_duration),
              Divisor(selected_algorithm, monthly_interest_rate,
                      TotalMonths(annuity_duration), month))

\* Lines 65-72: a month of a Monte Carlo run.
MonteCarloMonth ==
    /\ pc = "for_month"
    /\ selected_algorithm = "Monte Carlo"
    /\ month \in MonthRange(TotalMonths(annuity_duration))
    /\ MonthStep
    /\ UNCHANGED <<inputs, monthly_interest_rate, simulation_results, run, df,
                   df_describe, traces, previous>>

\* Lines 78-92: a month of a run of one of the other algorithms.
PolicyMonth ==
    /\ pc = "for_month"
    /\ selected_algorithm # "Monte Carlo"
    /\ month \in MonthRange(TotalMonths(annuity_duration))
    /\ MonthStep
    /\ UNCHANGED <<inputs, monthly_interest_rate, simulation_results, run, df,
                   df_describe, traces, previous>>

\* Lines 73 and 93: the month loop is exhausted and the run's payments are kept.
EndRun ==
    /\ pc = "for_month"
    /\ month \notin MonthRange(TotalMonths(annuity_duration))
    /\ simulation_results' = Append(simulation_results, annuity_payments)
    /\ traces' = Append(traces, trace)
    /\ run' = run + 1
    /\ pc' = "for_run"
    /\ UNCHANGED <<inputs, monthly_interest_rate, remaining_principal,
                   annuity_payments, month, df, df_describe, trace, previous>>

\* Lines 94-115: the run loop is exhausted; the table is built, named and
\* summarised.  Naming the columns raises ValueError on a length mismatch.
Summarise ==
    /\ pc = "for_run"
    /\ run \notin RunRange(num_simulations)
    /\ LET table == Transpose(DataFrame(simulation_results))
       IN  IF NumColumns(table) # Len(ColumnNames(num_simulations))
           THEN /\ pc' = "ValueError"
                /\ df' = [columns |-> <<>>, data |-> table]
                /\ UNCHANGED df_describe
           ELSE /\ df' = [columns |-> ColumnNames(num_simulations), data |-> table]
                /\ df_describe' = Describe(table)
                /\ pc' = "done"
    /\ UNCHANGED <<inputs, monthly_interest_rate, simulation_results, run,
                   remaining_principal, annuity_payments, month, trace, traces,
                   previous>>

\* The script is executed again from line 1, the mortality slider possibly
\* moved: every name is bound afresh.  The finished execution is remembered.
Rerun ==
    /\ pc = "done"
    /\ ~previous.executed
    /\ previous' = [executed                    |-> TRUE,
                    mortality_adjustment_factor |-> mortality_adjustment_factor,
                    simulation_results          |-> simulation_results,
                    traces                      |-> traces]
    /\ \E factor \in Factors :
          /\ mortality_adjustment_factor' = factor
          /\ monthly_interest_rate' = MonthlyRate(annual_interest_rate)
          /\ simulation_results' = <<>>
          /\ run' = 0
          /\ remaining_principal' = Unset
          /\ annuity_payments' = Unset
          /\ month' = Unset
          /\ df' = Unset
          /\ df_describe' = Unset
          /\ pc' = "for_run"
          /\ trace' = <<>>
          /\ traces' = <<>>
    /\ UNCHANGED <<principal, annual_interest_rate, annuity_duration,
                   num_simulations, selected_algorithm>>

\* One execution of the script.
Next ==
    \/ StartRun
    \/ MonteCarloMonth
    \/ PolicyMonth
    \/ EndRun
    \/ Summarise

Spec == Init /\ [][Next]_vars

\* The script executed, and executed once more after the slider was touched.
NextRerun ==
    \/ StartRun
    \/ MonteCarloMonth
    \/ PolicyMonth
    \/ EndRun
    \/ Summarise
    \/ Rerun

\* The executions compared are of the shortest duration the widget delivers.
InitRerun ==
    /\ \E p \in Principals, rate \in Rates, n \in Simulations,
          factor \in Factors, algorithm \in Algorithms :
            Start(p, rate, MinValue, n, factor, algorithm)
    /\ previous = NoPrevious

SpecRerun == InitRerun /\ [][NextRerun]_vars

----------------------------------------------------------------------------
(* The claims.                                                             *)

Total == TotalMonths(annuity_duration)

\* The last month the current run has gone through.
LastMonth == trace[Len(trace)]

\* The month loop of the current run is exhausted.
RunComplete == Len(trace) = Total

\* C6: when the simulation loops have finished, simulation_results holds
\* exactly num_simulations schedules, the month body having been run for
\* exactly num_simulations runs, and every schedule has exactly
\* annuity_duration * 12 entries.
MatrixShape ==
    /\ pc # "ValueError"
    /\ \A i \in 1 .. Len(simulation_results) : Len(simulation_results[i]) = Total
    /\ pc \in {"done", "ValueError"} =>
          /\ Len(simulation_results) = num_simulations
          /\ Len(traces) = num_simulations
          /\ \A i \in 1 .. Len(traces) : Len(traces[i]) = Total

MatrixShapeWitness ==
    /\ pc = "done"
    /\ num_simulations > 1
    /\ Len(simulation_results) = num_simulations
    /\ Len(simulation_results[num_simulations]) = annuity_duration * 12

\* C8: in every month the loop of Decreasing, Increasing or Graduated
\* Payment goes through, the divisor annuity_duration * 12 - month is at
\* least 1, and no ZeroDivisionError is raised.
NoZeroDivision ==
    /\ pc # "ZeroDivisionError"
    /\ (selected_algorithm \in RemainingBalancePolicies /\ trace # <<>>) =>
          /\ LastMonth.divisor = RInt(Total - (Len(trace) - 1))
          /\ RLe(RInt(1), LastMonth.divisor)

\* The last month of a remaining-balance run has divided by exactly 1.
NoZeroDivisionWitness ==
    /\ selected_algorithm \in RemainingBalancePolicies
    /\ pc = "for_month"
    /\ RunComplete
    /\ LastMonth.divisor = RInt(1)

\* A run is about to go through its first month.
AtRunStart == pc = "for_month" /\ month = 0

RunStartsFresh ==
    AtRunStart => remaining_principal = RInt(principal) /\ annuity_payments = <<>>

\* C9: every run starts with remaining_principal equal to principal and an
\* empty schedule, whatever the runs before it did, and no step of the
\* script changes the six inputs.
RunsShareNoState == [](RunStartsFresh) /\ [][inputs' = inputs]_vars

\* The second run starts fresh although the first left another balance.
RunsShareNoStateWitness ==
    /\ AtRunStart
    /\ run = 1
    /\ Len(simulation_results) = 1
    /\ ~REq(traces[1][Len(traces[1])].balance, RInt(principal))
    /\ remaining_principal = RInt(principal)
    /\ annuity_payments = <<>>

\* C10: every payment appended to a schedule is strictly positive, and
\* remaining_principal is not negative at the start of any month.
PaymentsPositiveBalanceCovered ==
    /\ trace # <<>> => RSign(annuity_payments[Len(annuity_payments)]) = 1
    /\ (pc = "for_month" /\ month \in 0 .. Total - 1) => RSign(remaining_principal) >= 0

\* This execution is finished and follows an earlier one.
Compared == pc = "done" /\ previous.executed

\* The payment of run i, month j is the previous execution's times k, k
\* being this mortality_adjustment_factor over the previous one.
Scaled(i, j) ==
    REq(RMul(simulation_results[i][j], previous.mortality_adjustment_factor),
        RMul(previous.simulation_results[i][j], mortality_adjustment_factor))

PaymentsScale ==
    \A i \in 1 .. Len(simulation_results) :
        \A j \in 1 .. Len(simulation_results[i]) : Scaled(i, j)

\* Month j of run i found and subtracted what it did in the previous execution.
SameMonth(i, j) ==
    /\ REq(traces[i][j].balance, previous.traces[i][j].balance)
    /\ REq(traces[i][j].subtracted, previous.traces[i][j].subtracted)

TrajectoriesUnchanged ==
    \A i \in 1 .. Len(traces) : \A j \in 1 .. Len(traces[i]) : SameMonth(i, j)

LevelPayment(x) ==
    RDiv(RMul(x, monthly_interest_rate),
         RSub(RInt(1), RPow(RAdd(RInt(1), monthly_interest_rate), -Total)))

Subtracted == [i \in 1 .. Len(trace) |-> trace[i].subtracted] \o <<>>

SubtractedSum == SumRange(Subtracted, 1, Len(trace))

\* principal / T times the factor.
FlatPayment ==
    RMul(RDiv(RInt(principal), RInt(Total)), mortality_adjustment_factor)

PaymentsFlat ==
    \A j \in 1 .. Len(annuity_payments) : REq(annuity_payments[j], FlatPayment)

Rebased(schedule, L) ==
    [j \in 1 .. Len(schedule) |->
        IF RIsZero(schedule[j]) THEN Zero
        ELSE [neg |-> schedule[j].neg, num |-> Over(schedule[j], L), den |-> L]] \o <<>>

\* The statistics count T values, and their min, max and mean are the
\* least, the greatest and the T-th of the sum of the payments.
SummarisesPayments(stats, payments) ==
    /\ stats.count = Total
    /\ ~stats.std.nan
    /\ \A j \in 1 .. Len(payments) :
          RLe(stats.min, payments[j]) /\ RLe(payments[j], stats.max)
    /\ \E j \in 1 .. Len(payments) : REq(stats.min, payments[j])
    /\ \E j \in 1 .. Len(payments) : REq(stats.max, payments[j])
    /\ REq(RMul(stats.mean, RInt(Total)), SumRange(payments, 1, Len(payments)))

\* The statistics are those of the payments of one schedule.
Summarises(stats, schedule) ==
    SummarisesPayments(stats,
        Rebased(schedule, CommonDenominator(schedule, 1, Len(schedule))))

Determinism ==
    /\ \A i \in 1 .. Len(simulation_results) :
          simulation_results[i] = simulation_results[1]
    /\ (/\ Compared
        /\ mortality_adjustment_factor = previous.mortality_adjustment_factor) =>
          simulation_results = previous.simulation_results

\* Two executions with the same parameters, of more than one run each.
DeterminismWitness ==
    /\ Compared
    /\ mortality_adjustment_factor = previous.mortality_adjustment_factor
    /\ num_simulations > 1
    /\ Len(simulation_results) = num_simulations
    /\ simulation_results = previous.simulation_results

=============================================================================
